---------------------------- MODULE Spec2Model ----------------------------
(***************************************************************************)
(* The QR pairing channel of whatsmeow: Client.GetQRChannel, the event     *)
(* handler qrChannel.handleEvent and the emitter goroutine                 *)
(* qrChannel.emitQRs.  Every goroutine is a record with a program counter; *)
(* each action is one atomic step of the Go code (a channel operation, an  *)
(* atomic compare-and-swap, a call on the client).  A Go panic ends the    *)
(* whole process: once panicked is set no action is enabled.               *)
(***************************************************************************)
EXTENDS Integers, Sequences, FiniteSets, TLC

\* Bounds of the model.
MaxEvents == 2      \* bus events dispatched to the handler over a run
MaxEmitters == 2    \* emitQRs goroutines started over a run
MaxCodes == 2       \* codes carried by one QR event

\* make(chan QRChannelItem, 7)
OutputCap == 7

VARIABLES
    connected,      \* cli.IsConnected()
    storeHasID,     \* cli.Store.ID != nil
    result,         \* what GetQRChannel returned ("none" before the call)
    outCap,         \* capacity of the channel made by GetQRChannel (0: none made)
    outBuf,         \* values buffered in qrc.output, oldest first
    outClosed,      \* qrc.output has been closed
    closed,         \* qrc.closed (0 or 1)
    stopQRs,        \* qrc.stopQRs has been closed
    subscribed,     \* qrc.handleEvent is registered under qrc.handlerID
    handlers,       \* handleEvent invocations
    emitters,       \* emitQRs goroutines
    panicked,       \* the Go panic that ended the process, if any
    outLog,         \* every value sent on qrc.output, in order, with its sender
    closeLog,       \* who closed qrc.output, in order
    addCount,       \* calls of cli.AddEventHandler
    removeCount,    \* calls of cli.RemoveEventHandler
    disconnectCount,\* calls of cli.Disconnect
    received,       \* values the caller has read from the returned channel
    sawClosed       \* the caller has read the closed channel's zero value

vars == <<connected, storeHasID, result, outCap, outBuf, outClosed, closed,
          stopQRs, subscribed, handlers, emitters, panicked, outLog, closeLog,
          addCount, removeCount, disconnectCount, received, sawClosed>>

--------------------------------------------------------------------------
\* QRChannelItem values.  A code carries the event it came with and its index.
QRChannelSuccess == [val |-> "success", ev |-> 0, idx |-> 0]
QRChannelTimeout == [val |-> "timeout", ev |-> 0, idx |-> 0]
QRChannelErrUnexpectedEvent == [val |-> "err-unexpected-state", ev |-> 0, idx |-> 0]

Code(h, i) == [val |-> "code", ev |-> h, idx |-> i]

\* evt.Codes of the QR event dispatched as the h-th event, carrying n codes.
Codes(h, n) == [i \in 1..n |-> Code(h, i)]

IsQR(item) ==
    /\ item # QRChannelSuccess
    /\ item # QRChannelTimeout
    /\ item # QRChannelErrUnexpectedEvent

TerminalKinds == {"PairSuccess", "Disconnected", "Connected", "ConnectFailure"}
EventKinds == {"QR", "Other"} \cup TerminalKinds

\* The type switch of handleEvent: the outputType of a terminal-causing event.
OutputType(kind) ==
    CASE kind = "PairSuccess" -> QRChannelSuccess
      [] kind = "Disconnected" -> QRChannelTimeout
      [] kind \in {"Connected", "ConnectFailure"} -> QRChannelErrUnexpectedEvent

\* Execution contexts.
Handler(h) == [role |-> "handler", id |-> h]
Emitter(e) == [role |-> "emitter", id |-> e]

NoPanic == [role |-> "none", id |-> 0, what |-> "none"]
Panic(who, what) == [role |-> who.role, id |-> who.id, what |-> what]
Alive == panicked = NoPanic

\* won records whether this context's compare-and-swap changed qrc.closed.
NoHandler == [pc |-> "none", kind |-> "none", codes |-> <<>>, won |-> FALSE]
\* closedAtGo records qrc.closed as it was when the go statement ran.
NoEmitter == [pc |-> "none", ev |-> 0, codes |-> <<>>, closedAtGo |-> 0,
              won |-> FALSE]

HandlerIds == 1..MaxEvents
EmitterIds == 1..MaxEmitters

nDispatched == Cardinality({h \in HandlerIds : handlers[h].pc # "none"})
nQRDispatched == Cardinality({h \in HandlerIds : handlers[h].kind = "QR"})
nStarted == Cardinality({e \in EmitterIds : emitters[e].pc # "none"})

--------------------------------------------------------------------------
Init ==
    /\ connected \in BOOLEAN
    /\ storeHasID \in BOOLEAN
    /\ result = "none"
    /\ outCap = 0
    /\ outBuf = <<>>
    /\ outClosed = FALSE
    /\ closed = 0
    /\ stopQRs = FALSE
    /\ subscribed = FALSE
    /\ handlers = [h \in HandlerIds |-> NoHandler]
    /\ emitters = [e \in EmitterIds |-> NoEmitter]
    /\ panicked = NoPanic
    /\ outLog = <<>>
    /\ closeLog = <<>>
    /\ addCount = 0
    /\ removeCount = 0
    /\ disconnectCount = 0
    /\ received = <<>>
    /\ sawClosed = FALSE

--------------------------------------------------------------------------
\* Channel operations on qrc.output, as Go defines them.

\* A send that finds the channel closed panics; otherwise it appends.
SendOutput(who, item) ==
    IF outClosed
    THEN /\ panicked' = Panic(who, "send on closed channel")
         /\ UNCHANGED <<outBuf, outLog>>
    ELSE /\ outBuf' = Append(outBuf, item)
         /\ outLog' = Append(outLog, [item |-> item, by |-> who])
         /\ UNCHANGED panicked

\* close(qrc.output): closing a closed channel panics.
CloseOutput(who) ==
    IF outClosed
    THEN /\ panicked' = Panic(who, "close of closed channel")
         /\ UNCHANGED <<outClosed, closeLog>>
    ELSE /\ outClosed' = TRUE
         /\ closeLog' = Append(closeLog, who)
         /\ UNCHANGED panicked

--------------------------------------------------------------------------
\* GetQRChannel with its two checks in the other order.
GetQRChannel_StoreFirst ==
    /\ Alive
    /\ result = "none"
    /\ IF storeHasID
       THEN /\ result' = "ErrQRStoreContainsID"
            /\ UNCHANGED <<outCap, subscribed, addCount>>
       ELSE IF connected
       THEN /\ result' = "ErrQRAlreadyConnected"
            /\ UNCHANGED <<outCap, subscribed, addCount>>
       ELSE /\ result' = "ok"
            /\ outCap' = OutputCap
            /\ subscribed' = TRUE
            /\ addCount' = addCount + 1
    /\ UNCHANGED <<connected, storeHasID, outBuf, outClosed, closed, stopQRs,
                   handlers, emitters, panicked, outLog, closeLog, removeCount,
                   disconnectCount, received, sawClosed>>

\* Client.GetQRChannel
GetQRChannel ==
    /\ Alive
    /\ result = "none"
    /\ IF connected
       THEN /\ result' = "ErrQRAlreadyConnected"
            /\ UNCHANGED <<outCap, subscribed, addCount>>
       ELSE IF storeHasID
       THEN /\ result' = "ErrQRStoreContainsID"
            /\ UNCHANGED <<outCap, subscribed, addCount>>
       ELSE /\ result' = "ok"
            /\ outCap' = OutputCap
            /\ subscribed' = TRUE
            /\ addCount' = addCount + 1
    /\ UNCHANGED <<connected, storeHasID, outBuf, outClosed, closed, stopQRs,
                   handlers, emitters, panicked, outLog, closeLog, removeCount,
                   disconnectCount, received, sawClosed>>

\* The bus calls every registered handler with the event: a new invocation of
\* qrc.handleEvent, which may run concurrently with the earlier ones.
Dispatch(kind, n) ==
    /\ Alive
    /\ subscribed
    /\ nDispatched < MaxEvents
    /\ kind = "QR" => nQRDispatched < MaxEmitters
    /\ kind # "QR" => n = 0
    /\ LET h == nDispatched + 1 IN
       handlers' = [handlers EXCEPT ![h] =
                       [pc |-> "called", kind |-> kind, codes |-> Codes(h, n),
                        won |-> FALSE]]
    /\ UNCHANGED <<connected, storeHasID, result, outCap, outBuf, outClosed,
                   closed, stopQRs, subscribed, emitters, panicked, outLog,
                   closeLog, addCount, removeCount, disconnectCount, received,
                   sawClosed>>


--------------------------------------------------------------------------
\* qrChannel.handleEvent

\* case *events.QR: go qrc.emitQRs(evt); return
HandleQR(h) ==
    /\ Alive
    /\ handlers[h].pc = "called"
    /\ handlers[h].kind = "QR"
    /\ LET e == nStarted + 1 IN
       emitters' = [emitters EXCEPT ![e] =
                       [pc |-> "top", ev |-> h, codes |-> handlers[h].codes,
                        closedAtGo |-> closed, won |-> FALSE]]
    /\ handlers' = [handlers EXCEPT ![h].pc = "returned"]
    /\ UNCHANGED <<connected, storeHasID, result, outCap, outBuf, outClosed,
                   closed, stopQRs, subscribed, panicked, outLog, closeLog,
                   addCount, removeCount, disconnectCount, received, sawClosed>>

\* The default branch falling through to the close of qrc.stopQRs.
HandleOther_SignalsStop(h) ==
    /\ Alive
    /\ handlers[h].pc = "called"
    /\ handlers[h].kind = "Other"
    /\ stopQRs' = TRUE
    /\ handlers' = [handlers EXCEPT ![h].pc = "returned"]
    /\ UNCHANGED <<connected, storeHasID, result, outCap, outBuf, outClosed,
                   closed, subscribed, emitters, panicked, outLog,
                   closeLog, addCount, removeCount, disconnectCount, received,
                   sawClosed>>

\* default: return
HandleOther(h) ==
    /\ Alive
    /\ handlers[h].pc = "called"
    /\ handlers[h].kind = "Other"
    /\ handlers' = [handlers EXCEPT ![h].pc = "returned"]
    /\ UNCHANGED <<connected, storeHasID, result, outCap, outBuf, outClosed,
                   closed, stopQRs, subscribed, emitters, panicked, outLog,
                   closeLog, addCount, removeCount, disconnectCount, received,
                   sawClosed>>

\* A terminal-causing event: outputType is set, then close(qrc.stopQRs).
HandleCloseStop(h) ==
    /\ Alive
    /\ handlers[h].pc = "called"
    /\ handlers[h].kind \in TerminalKinds
    /\ IF stopQRs
       THEN /\ panicked' = Panic(Handler(h), "close of closed channel")
            /\ UNCHANGED <<stopQRs, handlers>>
       ELSE /\ stopQRs' = TRUE
            /\ handlers' = [handlers EXCEPT ![h].pc = "cas"]
            /\ UNCHANGED panicked
    /\ UNCHANGED <<connected, storeHasID, result, outCap, outBuf, outClosed,
                   closed, subscribed, emitters, outLog, closeLog, addCount,
                   removeCount, disconnectCount, received, sawClosed>>

\* handleEvent returning at once when its compare-and-swap fails.
HandleCAS_ReturnsOnLoss(h) ==
    /\ Alive
    /\ handlers[h].pc = "cas"
    /\ IF closed = 0
       THEN /\ closed' = 1
            /\ handlers' = [handlers EXCEPT ![h].pc = "send", ![h].won = TRUE]
       ELSE /\ handlers' = [handlers EXCEPT ![h].pc = "returned"]
            /\ UNCHANGED closed
    /\ UNCHANGED <<connected, storeHasID, result, outCap, outBuf, outClosed,
                   stopQRs, subscribed, emitters, panicked, outLog, closeLog,
                   addCount, removeCount, disconnectCount, received, sawClosed>>

\* handleEvent storing 1 into qrc.closed without comparing.
HandleCAS_NoCompare(h) ==
    /\ Alive
    /\ handlers[h].pc = "cas"
    /\ closed' = 1
    /\ handlers' = [handlers EXCEPT ![h].pc = "send", ![h].won = TRUE]
    /\ UNCHANGED <<connected, storeHasID, result, outCap, outBuf, outClosed,
                   stopQRs, subscribed, emitters, panicked, outLog, closeLog,
                   addCount, removeCount, disconnectCount, received, sawClosed>>

\* atomic.CompareAndSwapUint32(&qrc.closed, 0, 1)
HandleCAS(h) ==
    /\ Alive
    /\ handlers[h].pc = "cas"
    /\ IF closed = 0
       THEN /\ closed' = 1
            /\ handlers' = [handlers EXCEPT ![h].pc = "send", ![h].won = TRUE]
       ELSE /\ handlers' = [handlers EXCEPT ![h].pc = "remove"]
            /\ UNCHANGED closed
    /\ UNCHANGED <<connected, storeHasID, result, outCap, outBuf, outClosed,
                   stopQRs, subscribed, emitters, panicked, outLog, closeLog,
                   addCount, removeCount, disconnectCount, received, sawClosed>>

\* qrc.output <- outputType: a blocking send, it waits for room in the buffer.
HandleSend(h) ==
    /\ Alive
    /\ handlers[h].pc = "send"
    /\ outClosed \/ Len(outBuf) < outCap
    /\ SendOutput(Handler(h), OutputType(handlers[h].kind))
    /\ handlers' = [handlers EXCEPT ![h].pc = IF outClosed THEN @ ELSE "close"]
    /\ UNCHANGED <<connected, storeHasID, result, outCap, outClosed, closed,
                   stopQRs, subscribed, emitters, closeLog, addCount,
                   removeCount, disconnectCount, received, sawClosed>>

\* close(qrc.output)
HandleClose(h) ==
    /\ Alive
    /\ handlers[h].pc = "close"
    /\ CloseOutput(Handler(h))
    /\ handlers' = [handlers EXCEPT ![h].pc = IF outClosed THEN @ ELSE "remove"]
    /\ UNCHANGED <<connected, storeHasID, result, outCap, outBuf, closed,
                   stopQRs, subscribed, emitters, outLog, addCount, removeCount,
                   disconnectCount, received, sawClosed>>

\* qrc.cli.RemoveEventHandler(qrc.handlerID)
HandleRemove(h) ==
    /\ Alive
    /\ handlers[h].pc = "remove"
    /\ subscribed' = FALSE
    /\ removeCount' = removeCount + 1
    /\ handlers' = [handlers EXCEPT ![h].pc = "returned"]
    /\ UNCHANGED <<connected, storeHasID, result, outCap, outBuf, outClosed,
                   closed, stopQRs, emitters, panicked, outLog, closeLog,
                   addCount, disconnectCount, received, sawClosed>>

--------------------------------------------------------------------------
\* qrChannel.emitQRs

\* The exhausted emitter storing 1 into qrc.closed without comparing.
EmitExhausted_NoCompare(e) ==
    /\ Alive
    /\ emitters[e].pc = "top"
    /\ emitters[e].codes = <<>>
    /\ closed' = 1
    /\ emitters' = [emitters EXCEPT ![e].pc = "sendTimeout", ![e].won = TRUE]
    /\ UNCHANGED <<connected, storeHasID, result, outCap, outBuf, outClosed,
                   stopQRs, subscribed, handlers, panicked, outLog, closeLog,
                   addCount, removeCount, disconnectCount, received, sawClosed>>

\* The exhausted emitter that loses the compare-and-swap still going on to the
\* call of qrc.cli.Disconnect().
EmitExhausted_LoserDisconnects(e) ==
    /\ Alive
    /\ emitters[e].pc = "top"
    /\ emitters[e].codes = <<>>
    /\ IF closed = 0
       THEN /\ closed' = 1
            /\ emitters' = [emitters EXCEPT ![e].pc = "sendTimeout", ![e].won = TRUE]
       ELSE /\ emitters' = [emitters EXCEPT ![e].pc = "disconnect"]
            /\ UNCHANGED closed
    /\ UNCHANGED <<connected, storeHasID, result, outCap, outBuf, outClosed,
                   stopQRs, subscribed, handlers, panicked, outLog, closeLog,
                   addCount, removeCount, disconnectCount, received, sawClosed>>

\* len(evt.Codes) == 0: the compare-and-swap decides who closes.
EmitExhausted(e) ==
    /\ Alive
    /\ emitters[e].pc = "top"
    /\ emitters[e].codes = <<>>
    /\ IF closed = 0
       THEN /\ closed' = 1
            /\ emitters' = [emitters EXCEPT ![e].pc = "sendTimeout", ![e].won = TRUE]
       ELSE /\ emitters' = [emitters EXCEPT ![e].pc = "exit_lost"]
            /\ UNCHANGED closed
    /\ UNCHANGED <<connected, storeHasID, result, outCap, outBuf, outClosed,
                   stopQRs, subscribed, handlers, panicked, outLog, closeLog,
                   addCount, removeCount, disconnectCount, received, sawClosed>>

\* qrc.output <- QRChannelTimeout: a blocking send.
EmitSendTimeout(e) ==
    /\ Alive
    /\ emitters[e].pc = "sendTimeout"
    /\ outClosed \/ Len(outBuf) < outCap
    /\ SendOutput(Emitter(e), QRChannelTimeout)
    /\ emitters' = [emitters EXCEPT ![e].pc = IF outClosed THEN @ ELSE "close"]
    /\ UNCHANGED <<connected, storeHasID, result, outCap, outClosed, closed,
                   stopQRs, subscribed, handlers, closeLog, addCount,
                   removeCount, disconnectCount, received, sawClosed>>

\* close(qrc.output)
EmitClose(e) ==
    /\ Alive
    /\ emitters[e].pc = "close"
    /\ CloseOutput(Emitter(e))
    /\ emitters' = [emitters EXCEPT ![e].pc = IF outClosed THEN @ ELSE "disconnect"]
    /\ UNCHANGED <<connected, storeHasID, result, outCap, outBuf, closed,
                   stopQRs, subscribed, handlers, outLog, addCount, removeCount,
                   disconnectCount, received, sawClosed>>

\* The exhausted emitter returning without the call of qrc.cli.Disconnect().
EmitDisconnect_NoCall(e) ==
    /\ Alive
    /\ emitters[e].pc = "disconnect"
    /\ emitters' = [emitters EXCEPT ![e].pc = "exit_timeout"]
    /\ UNCHANGED <<connected, storeHasID, result, outCap, outBuf, outClosed,
                   closed, stopQRs, subscribed, handlers, panicked, outLog,
                   closeLog, addCount, removeCount, disconnectCount, received,
                   sawClosed>>

\* The exhausted emitter removing the relay's handler before it returns.
EmitDisconnect_Unsubscribes(e) ==
    /\ Alive
    /\ emitters[e].pc = "disconnect"
    /\ disconnectCount' = disconnectCount + 1
    /\ connected' = FALSE
    /\ subscribed' = FALSE
    /\ emitters' = [emitters EXCEPT ![e].pc = "exit_timeout"]
    /\ UNCHANGED <<storeHasID, result, outCap, outBuf, outClosed, closed,
                   stopQRs, handlers, panicked, outLog, closeLog,
                   addCount, removeCount, received, sawClosed>>

\* qrc.cli.Disconnect(); return
EmitDisconnect(e) ==
    /\ Alive
    /\ emitters[e].pc = "disconnect"
    /\ disconnectCount' = disconnectCount + 1
    /\ connected' = FALSE
    /\ emitters' = [emitters EXCEPT ![e].pc = "exit_timeout"]
    /\ UNCHANGED <<storeHasID, result, outCap, outBuf, outClosed, closed,
                   stopQRs, subscribed, handlers, panicked, outLog, closeLog,
                   addCount, removeCount, received, sawClosed>>

\* The emitter going on with the next code, instead of returning, when the
\* buffer is full.
EmitCode_ContinuesWhenFull(e) ==
    /\ Alive
    /\ emitters[e].pc = "top"
    /\ emitters[e].codes # <<>>
    /\ LET nextCode == Head(emitters[e].codes)
           rest == Tail(emitters[e].codes) IN
       IF outClosed \/ Len(outBuf) < outCap
       THEN /\ SendOutput(Emitter(e), nextCode)
            /\ emitters' = [emitters EXCEPT ![e] =
                  IF outClosed THEN [@ EXCEPT !.codes = rest]
                  ELSE [@ EXCEPT !.codes = rest, !.pc = "wait"]]
       ELSE /\ emitters' = [emitters EXCEPT ![e] = [@ EXCEPT !.codes = rest]]
            /\ UNCHANGED <<outBuf, outLog, panicked>>
    /\ UNCHANGED <<connected, storeHasID, result, outCap, outClosed, closed,
                   stopQRs, subscribed, handlers, closeLog, addCount,
                   removeCount, disconnectCount, received, sawClosed>>

\* The emitter popping the last code of the sequence instead of the first.
EmitCode_PopsLast(e) ==
    /\ Alive
    /\ emitters[e].pc = "top"
    /\ emitters[e].codes # <<>>
    /\ LET n == Len(emitters[e].codes)
           nextCode == emitters[e].codes[n]
           rest == SubSeq(emitters[e].codes, 1, n - 1) IN
       IF outClosed \/ Len(outBuf) < outCap
       THEN /\ SendOutput(Emitter(e), nextCode)
            /\ emitters' = [emitters EXCEPT ![e] =
                  IF outClosed THEN [@ EXCEPT !.codes = rest]
                  ELSE [@ EXCEPT !.codes = rest, !.pc = "wait"]]
       ELSE /\ emitters' = [emitters EXCEPT ![e] =
                  [@ EXCEPT !.codes = rest, !.pc = "exit_dropped"]]
            /\ UNCHANGED <<outBuf, outLog, panicked>>
    /\ UNCHANGED <<connected, storeHasID, result, outCap, outClosed, closed,
                   stopQRs, subscribed, handlers, closeLog, addCount,
                   removeCount, disconnectCount, received, sawClosed>>

\* nextCode, evt.Codes = evt.Codes[0], evt.Codes[1:], then the non-blocking
\* send: select { case qrc.output <- nextCode: default: return }.  On a closed
\* channel the send case panics; on a full buffer the default case is taken.
EmitCode(e) ==
    /\ Alive
    /\ emitters[e].pc = "top"
    /\ emitters[e].codes # <<>>
    /\ LET nextCode == Head(emitters[e].codes)
           rest == Tail(emitters[e].codes) IN
       IF outClosed \/ Len(outBuf) < outCap
       THEN /\ SendOutput(Emitter(e), nextCode)
            /\ emitters' = [emitters EXCEPT ![e] =
                  IF outClosed THEN [@ EXCEPT !.codes = rest]
                  ELSE [@ EXCEPT !.codes = rest, !.pc = "wait"]]
       ELSE /\ emitters' = [emitters EXCEPT ![e] =
                  [@ EXCEPT !.codes = rest, !.pc = "exit_dropped"]]
            /\ UNCHANGED <<outBuf, outLog, panicked>>
    /\ UNCHANGED <<connected, storeHasID, result, outCap, outClosed, closed,
                   stopQRs, subscribed, handlers, closeLog, addCount,
                   removeCount, disconnectCount, received, sawClosed>>

\* select: case <-time.After(evt.Timeout): the validity window ends, loop.
EmitTimerFires(e) ==
    /\ Alive
    /\ emitters[e].pc = "wait"
    /\ emitters' = [emitters EXCEPT ![e].pc = "top"]
    /\ UNCHANGED <<connected, storeHasID, result, outCap, outBuf, outClosed,
                   closed, stopQRs, subscribed, handlers, panicked, outLog,
                   closeLog, addCount, removeCount, disconnectCount, received,
                   sawClosed>>

\* select: case <-qrc.stopQRs: return.  Ready once stopQRs is closed; when the
\* timer is ready too, Go picks either case.
EmitStopped(e) ==
    /\ Alive
    /\ emitters[e].pc = "wait"
    /\ stopQRs
    /\ emitters' = [emitters EXCEPT ![e].pc = "exit_stopped"]
    /\ UNCHANGED <<connected, storeHasID, result, outCap, outBuf, outClosed,
                   closed, stopQRs, subscribed, handlers, panicked, outLog,
                   closeLog, addCount, removeCount, disconnectCount, received,
                   sawClosed>>

--------------------------------------------------------------------------
\* The caller reading the returned <-chan QRChannelItem.

Receive ==
    /\ Alive
    /\ outBuf # <<>>
    /\ received' = Append(received, Head(outBuf))
    /\ outBuf' = Tail(outBuf)
    /\ UNCHANGED <<connected, storeHasID, result, outCap, outClosed, closed,
                   stopQRs, subscribed, handlers, emitters, panicked, outLog,
                   closeLog, addCount, removeCount, disconnectCount, sawClosed>>

\* A receive on the closed, drained channel returns at once.
ReceiveClosed ==
    /\ Alive
    /\ outBuf = <<>>
    /\ outClosed
    /\ ~sawClosed
    /\ sawClosed' = TRUE
    /\ UNCHANGED <<connected, storeHasID, result, outCap, outBuf, outClosed,
                   closed, stopQRs, subscribed, handlers, emitters, panicked,
                   outLog, closeLog, addCount, removeCount, disconnectCount,
                   received>>

--------------------------------------------------------------------------
HandlerStep(h) ==
    \/ HandleQR(h)
    \/ HandleOther(h)
    \/ HandleCloseStop(h)
    \/ HandleCAS(h)
    \/ HandleSend(h)
    \/ HandleClose(h)
    \/ HandleRemove(h)

EmitterStep(e) ==
    \/ EmitExhausted(e)
    \/ EmitSendTimeout(e)
    \/ EmitClose(e)
    \/ EmitDisconnect(e)
    \/ EmitCode(e)
    \/ EmitTimerFires(e)
    \/ EmitStopped(e)

Next ==
    \/ GetQRChannel
    \/ \E kind \in EventKinds, n \in 0..MaxCodes : Dispatch(kind, n)
    \/ \E h \in HandlerIds : HandlerStep(h)
    \/ \E e \in EmitterIds : EmitterStep(e)
    \/ Receive
    \/ ReceiveClosed

Spec == Init /\ [][Next]_vars

\* The Go scheduler runs every runnable goroutine, timers fire, and the caller
\* keeps reading the channel.  The bus is not obliged to deliver anything.
FairSpec ==
    /\ Spec
    /\ \A h \in HandlerIds : WF_vars(HandlerStep(h))
    /\ \A e \in EmitterIds : WF_vars(EmitterStep(e))
    /\ WF_vars(Receive)
    /\ WF_vars(ReceiveClosed)

\* A QR event long enough to overrun the output buffer when nobody reads it.
LongCodes == OutputCap + 1

\* The bus as in Dispatch, with the QR events the overrun needs: one QR event
\* of LongCodes codes at most, every other QR event with an empty code list.
DispatchLong(kind, n) ==
    /\ n > 0 => \A h \in HandlerIds : handlers[h].codes = <<>>
    /\ Dispatch(kind, n)

NextLong ==
    \/ GetQRChannel
    \/ \E kind \in EventKinds, n \in {0, LongCodes} : DispatchLong(kind, n)
    \/ \E h \in HandlerIds : HandlerStep(h)
    \/ \E e \in EmitterIds : EmitterStep(e)
    \/ Receive
    \/ ReceiveClosed

LongSpec == Init /\ [][NextLong]_vars

TypeOK ==
    /\ closed \in {0, 1}
    /\ Len(outBuf) <= outCap
    /\ result \in {"none", "ok", "ErrQRAlreadyConnected", "ErrQRStoreContainsID"}

--------------------------------------------------------------------------
\* Vocabulary of the properties.

IsTerminal(item) == ~IsQR(item)
TerminalIdx == {i \in 1..Len(outLog) : IsTerminal(outLog[i].item)}
WrittenBy(who) == {i \in 1..Len(outLog) : outLog[i].by = who}
Exited(e) == emitters[e].pc \in {"exit_timeout", "exit_lost", "exit_dropped", "exit_stopped"}
TerminalHandlers == {h \in HandlerIds : handlers[h].kind \in TerminalKinds}
QRHandlers == {h \in HandlerIds : handlers[h].kind = "QR"}

--------------------------------------------------------------------------
\* C1: the stream receives at most one terminal value, the terminal value is
\* the last value ever written to it, and the stream is closed at most once
\* and only after the terminal value has been written.
C1_OneTerminalLastThenClose ==
    /\ Cardinality(TerminalIdx) <= 1
    /\ \A i \in TerminalIdx : i = Len(outLog)
    /\ Len(closeLog) <= 1
    /\ outClosed => TerminalIdx # {}

\* C2: no emitter writes, or attempts to write, a code after a terminal value
\* has been written or after the stream has been closed.
C2_NoCodeAfterTerminal ==
    /\ \A i \in TerminalIdx : \A j \in 1..Len(outLog) :
          (j > i /\ outLog[j].by.role = "emitter") => IsTerminal(outLog[j].item)
    /\ ~(panicked.role = "emitter" /\ panicked.what = "send on closed channel")

\* C3: two distinct terminal-causing events delivered concurrently end with
\* exactly one terminal value and exactly one close, and no operation fails.
C3_TwoTerminalEvents ==
    \A h1 \in TerminalHandlers : \A h2 \in TerminalHandlers :
        handlers[h1].kind # handlers[h2].kind =>
            /\ Alive
            /\ (handlers[h1].pc = "returned" /\ handlers[h2].pc = "returned") =>
                  /\ Cardinality(TerminalIdx) = 1
                  /\ Len(closeLog) = 1

\* What the caller of C4 ends with: the codes of the QR event in order, then
\* timeout, the closed stream seen, one call of Client.Disconnect.
C4_Drained ==
    \E h \in QRHandlers :
        /\ received = handlers[h].codes \o <<QRChannelTimeout>>
        /\ sawClosed
        /\ disconnectCount = 1

C5_SuccessEndsStream ==
    \A h \in TerminalHandlers : \A q \in QRHandlers :
        (handlers[h].kind = "PairSuccess" /\ q < h /\ WrittenBy(Handler(h)) # {}) =>
            /\ Alive
            /\ outLog[Len(outLog)].item = QRChannelSuccess
            /\ Len(closeLog) <= 1
            /\ handlers[h].pc \in {"remove", "returned"} => outClosed
            /\ handlers[h].pc = "returned" => ~subscribed

\* C6: GetQRChannel returns ErrQRAlreadyConnected when the client is
\* connected, otherwise ErrQRStoreContainsID when the store holds a device ID,
\* in both cases with no stream, no handler and no relay state; only when both
\* checks pass is a stream of capacity 7 made and exactly one handler added.
C6_Preconditions ==
    /\ (result # "none" /\ connected) => result = "ErrQRAlreadyConnected"
    /\ (result # "none" /\ ~connected /\ storeHasID) => result = "ErrQRStoreContainsID"
    /\ result \in {"none", "ErrQRAlreadyConnected", "ErrQRStoreContainsID"} =>
          /\ outCap = 0
          /\ ~subscribed
          /\ addCount = 0
          /\ nDispatched = 0
          /\ nStarted = 0
          /\ outLog = <<>>
          /\ closed = 0
    /\ result = "ok" =>
          /\ ~storeHasID
          /\ outCap = 7
          /\ addCount = 1

\* C6 witness: both checks would fail and the connection check answered.
C6_Witness ==
    /\ result = "ErrQRAlreadyConnected"
    /\ connected
    /\ storeHasID

\* C7 as stated: a QR event with an empty code list handled on a relay that is
\* not yet closed makes its emitter write timeout, close the stream and request
\* Client.Disconnect.
C7_EmptyQRAlwaysTimesOut ==
    \A e \in EmitterIds :
        ( /\ Exited(e)
          /\ handlers[emitters[e].ev].codes = <<>>
          /\ emitters[e].closedAtGo = 0 )
        => emitters[e].pc = "exit_timeout"

\* C7 amended: the emitter of a QR event with an empty code list writes no
\* code; if the relay is still not closed when the emitter makes its
\* compare-and-swap, the one value it writes is timeout, it then closes the
\* stream and requests Client.Disconnect, and it fails at none of these; if
\* the relay was closed by then it writes nothing and closes nothing.
C7_EmptyQRTimesOutIfItWins ==
    \A e \in EmitterIds :
        (emitters[e].pc # "none" /\ handlers[emitters[e].ev].codes = <<>>) =>
            LET me == Emitter(e)
                pc == emitters[e].pc IN
            /\ panicked.role = "emitter" => panicked.id # e
            /\ \A i \in WrittenBy(me) : outLog[i].item = QRChannelTimeout
            /\ pc \in {"top", "sendTimeout", "close", "disconnect",
                       "exit_timeout", "exit_lost"}
            /\ pc \in {"top", "sendTimeout", "exit_lost"} =>
                  /\ WrittenBy(me) = {}
                  /\ \A i \in 1..Len(closeLog) : closeLog[i] # me
            /\ pc \in {"close", "disconnect", "exit_timeout"} =>
                  Cardinality(WrittenBy(me)) = 1
            /\ pc = "close" => closeLog = <<>>
            /\ pc \in {"disconnect", "exit_timeout"} => closeLog = <<me>>
            /\ pc = "disconnect" => disconnectCount = 0
            /\ pc = "exit_timeout" => disconnectCount = 1
            /\ pc = "exit_lost" => closed = 1

\* C7 witness: an emitter of an empty QR event that won, wrote timeout alone,
\* closed the stream and requested the disconnect.
C7_Witness ==
    \E e \in EmitterIds :
        /\ emitters[e].pc = "exit_timeout"
        /\ handlers[emitters[e].ev].codes = <<>>
        /\ outLog = <<[item |-> QRChannelTimeout, by |-> Emitter(e)]>>
        /\ outClosed
        /\ disconnectCount = 1

\* C8: the handler is removed from the bus exactly once, after the terminal
\* value has been written, whichever path made the terminal transition.
C8_RemovedOnceAfterTerminal ==
    /\ removeCount <= 1
    /\ removeCount >= 1 => TerminalIdx # {}
    /\ \A e \in EmitterIds : emitters[e].pc = "exit_timeout" => removeCount = 1
    /\ \A h \in TerminalHandlers : handlers[h].pc = "returned" => removeCount = 1

\* C9: once the closed flag is 1, a further invocation of handleEvent writes
\* nothing, closes nothing and fails at no operation.
C9_ClosedIsAbsorbing ==
    [][ \A h \in HandlerIds :
          ( /\ closed = 1
            /\ handlers[h].pc = "called"
            /\ \/ handlers'[h] # handlers[h]
               \/ (panicked' # panicked /\ panicked'.id = h) )
          => /\ panicked' = NoPanic
             /\ outLog' = outLog
             /\ outClosed' = outClosed ]_vars

\* C10: once a terminal-causing event has been handled, every emitter that
\* was started terminates, and does so without failing.
C10_NoEmitterFails ==
    (\E h \in TerminalHandlers : handlers[h].pc = "returned") =>
        panicked.role # "emitter"

--------------------------------------------------------------------------
\* The contexts whose compare-and-swap made the 0 -> 1 transition, and those
\* whose compare-and-swap found the flag already 1.
Winners ==
    {Handler(h) : h \in {x \in HandlerIds : handlers[x].won}}
        \cup {Emitter(e) : e \in {x \in EmitterIds : emitters[x].won}}
Losers ==
    {Handler(h) : h \in {x \in TerminalHandlers :
                            handlers[x].pc \in {"remove", "returned"} /\ ~handlers[x].won}}
        \cup {Emitter(e) : e \in {x \in EmitterIds : emitters[x].pc = "exit_lost"}}

\* C11: the closed flag changes only from 0 to 1, at most once, and is never
\* reset; every terminal value and every close of the stream comes from the
\* one context whose compare-and-swap made the transition, and a context that
\* lost the compare-and-swap writes nothing and closes nothing afterwards.
C11_OnlyTheWinnerTerminates ==
    /\ [](/\ Cardinality(Winners) <= 1
          /\ closed = 1 <=> Winners # {}
          /\ \A i \in TerminalIdx : outLog[i].by \in Winners
          /\ \A i \in 1..Len(closeLog) : closeLog[i] \in Winners
          /\ \A l \in Losers : \A i \in WrittenBy(l) : IsQR(outLog[i].item))
    /\ [][/\ closed' # closed => (closed = 0 /\ closed' = 1)
          /\ Winners \subseteq Winners'
          /\ outLog' # outLog => outLog'[Len(outLog')].by \notin Losers
          /\ closeLog' # closeLog => closeLog'[Len(closeLog')] \notin Losers]_vars

\* C11 witness: a handler won and has closed the stream, an emitter lost.
C11_Witness ==
    /\ \E h \in HandlerIds : closeLog = <<Handler(h)>> /\ Handler(h) \in Winners
    /\ \E e \in EmitterIds : Emitter(e) \in Losers

\* The executions of close(qrc.stopQRs) so far: the invocations that are past
\* line 92, and the one that panicked there.
StopCloseExecutions ==
    Cardinality({h \in TerminalHandlers : handlers[h].pc \notin {"none", "called"}})
        + (IF /\ panicked.role = "handler"
              /\ handlers[panicked.id].pc = "called"
           THEN 1 ELSE 0)

\* C12: the stop signal is signaled at most once over the relay's lifetime,
\* whether the terminal-causing events come one after another or concurrently.
C12_StopSignaledAtMostOnce ==
    StopCloseExecutions <= 1

C14_StopEndsEveryWait ==
    [][ \A e \in EmitterIds :
          ( /\ stopQRs
            /\ emitters[e].pc = "wait"
            /\ emitters'[e] # emitters[e] )
          => /\ emitters'[e].pc = "exit_stopped"
             /\ outLog' = outLog
             /\ closed' = closed ]_vars

\* The step of C15: an emitter's non-blocking send of a code that finds the
\* buffer of the open stream full ends the emitter and changes nothing else.
C15_DropStep ==
    \A e \in EmitterIds :
        ( /\ emitters[e].pc = "top"
          /\ emitters[e].codes # <<>>
          /\ ~outClosed
          /\ Len(outBuf) = outCap
          /\ emitters'[e] # emitters[e] )
        => /\ emitters'[e].pc = "exit_dropped"
           /\ UNCHANGED <<outBuf, outLog, outClosed, closeLog, closed, stopQRs,
                          subscribed, removeCount, disconnectCount, panicked>>

NoTerminalHandled == \A h \in TerminalHandlers : handlers[h].pc = "called"
SomeEmitterDropped == \E e \in EmitterIds : emitters[e].pc = "exit_dropped"

\* C15 as stated: the emitter that finds the buffer full terminates and leaves
\* the stream, the closed flag, the stop signal and the subscription as they
\* are, requests no disconnect, and the stream then stays open until a
\* terminal-causing bus event is handled.
C15_DropKeepsStreamOpen ==
    /\ [][C15_DropStep]_vars
    /\ []((SomeEmitterDropped /\ NoTerminalHandled) => ~outClosed)

\* C15 amended: the same frame, and the stream then stays open until a
\* terminal-causing bus event is handled or another emitter, one that has
\* exhausted its own sequence, closes it with timeout.
C15_DropKeepsStreamOpenUnlessExhausted ==
    /\ [][C15_DropStep]_vars
    /\ []((SomeEmitterDropped /\ NoTerminalHandled /\ Winners = {}) =>
             (~outClosed /\ closed = 0 /\ TerminalIdx = {}))
    /\ []((SomeEmitterDropped /\ NoTerminalHandled /\ outClosed) =>
             \E e \in EmitterIds :
                /\ handlers[emitters[e].ev].codes = <<>>
                /\ closeLog = <<Emitter(e)>>
                /\ \E i \in 1..Len(outLog) :
                      outLog[i] = [item |-> QRChannelTimeout, by |-> Emitter(e)])

\* C15 witness: an emitter has given up on the full buffer of the open stream.
C15_Witness ==
    /\ SomeEmitterDropped
    /\ Len(outBuf) = OutputCap
    /\ ~outClosed
    /\ closed = 0
    /\ subscribed
    /\ disconnectCount = 0


\* The positions of an emitter from which the code goes on without waiting for
\* the timer or the stop signal.
RunningPcs == {"top", "sendTimeout", "close", "disconnect"}

\* C16: an emitter suspends only in its wait for the validity duration or the
\* stop signal; whatever the output buffer holds, an emitter that is about to
\* write a code or timeout to the stream can take its step.
C16_EmitterNeverBlocksOnWrite ==
    \A e \in EmitterIds :
        (Alive /\ emitters[e].pc \in RunningPcs) => ENABLED EmitterStep(e)


\* The emitters that have requested Client.Disconnect.
Disconnecters == {e \in EmitterIds : emitters[e].pc = "exit_timeout"}

\* What has happened when emitter e is at, or past, its call of Disconnect: it
\* found its sequence empty, won the compare-and-swap, wrote timeout and closed
\* the stream.
MayDisconnect(e) ==
    /\ emitters[e].codes = <<>>
    /\ emitters[e].won
    /\ closed = 1
    /\ outClosed
    /\ closeLog = <<Emitter(e)>>
    /\ \E i \in 1..Len(outLog) :
          outLog[i] = [item |-> QRChannelTimeout, by |-> Emitter(e)]

\* C17: Client.Disconnect is requested at most once, only by an emitter that
\* found its sequence empty and won the compare-and-swap, only after timeout
\* was written and the stream closed; no handleEvent path and no emitter that
\* lost the compare-and-swap requests it.
C17_DisconnectOnlyByWinningEmitter ==
    /\ [](/\ disconnectCount <= 1
          /\ disconnectCount = Cardinality(Disconnecters)
          /\ \A e \in EmitterIds :
                emitters[e].pc \in {"disconnect", "exit_timeout"} => MayDisconnect(e)
          /\ \A e \in EmitterIds : emitters[e].pc = "exit_lost" => e \notin Disconnecters)
    /\ [][disconnectCount' # disconnectCount =>
            /\ disconnectCount' = disconnectCount + 1
            /\ handlers' = handlers
            /\ \E e \in EmitterIds :
                  /\ emitters[e].pc = "disconnect"
                  /\ MayDisconnect(e)
                  /\ emitters'[e].pc = "exit_timeout"]_vars

\* C17 witness: one emitter has requested the disconnect and another one, its
\* sequence exhausted too, has lost the compare-and-swap and returned.
C17_Witness ==
    /\ disconnectCount = 1
    /\ Disconnecters # {}
    /\ \E e \in EmitterIds : emitters[e].pc = "exit_lost"


\* What handleEvent leaves alone on its QR and default branches: the closed
\* flag, the stop signal, the stream and the subscription.
HandlerFrame ==
    UNCHANGED <<closed, stopQRs, outBuf, outLog, outClosed, closeLog,
                subscribed, addCount, removeCount, disconnectCount, panicked>>

\* The emitters that handler step h -> h' has started.
StartedNow == {e \in EmitterIds : emitters[e].pc = "none" /\ emitters'[e].pc # "none"}

\* C18: handleEvent with an event of no handled kind changes nothing and
\* starts no emitter; handleEvent with a QR event starts exactly one emitter,
\* for that event's codes, and neither writes, closes, signals stop nor
\* unsubscribes.
C18_IgnoredAndQREvents ==
    /\ [][\A h \in HandlerIds :
            (handlers[h].pc = "called" /\ handlers'[h] # handlers[h]) =>
               /\ handlers[h].kind = "Other" =>
                     /\ handlers'[h].pc = "returned"
                     /\ HandlerFrame
                     /\ emitters' = emitters
               /\ handlers[h].kind = "QR" =>
                     /\ handlers'[h].pc = "returned"
                     /\ HandlerFrame
                     /\ Cardinality(StartedNow) = 1
                     /\ \A e \in StartedNow :
                           /\ emitters'[e].pc = "top"
                           /\ emitters'[e].ev = h
                           /\ emitters'[e].codes = handlers[h].codes
                     /\ \A e \in EmitterIds \ StartedNow : emitters'[e] = emitters[e]]_vars
    /\ [](/\ nStarted = Cardinality({h \in QRHandlers : handlers[h].pc = "returned"})
          /\ \A e \in EmitterIds : emitters[e].pc # "none" =>
                /\ emitters[e].ev \in QRHandlers
                /\ handlers[emitters[e].ev].pc = "returned"
          /\ \A e1, e2 \in EmitterIds :
                (emitters[e1].pc # "none" /\ emitters[e2].pc # "none" /\ e1 # e2)
                   => emitters[e1].ev # emitters[e2].ev)

\* C18 witness: an ignored event and a QR event have both been handled; one
\* emitter runs, and the relay is as GetQRChannel left it.
C18_Witness ==
    /\ \E h \in HandlerIds : handlers[h].kind = "Other" /\ handlers[h].pc = "returned"
    /\ \E h \in QRHandlers : handlers[h].pc = "returned"
    /\ nStarted = 1
    /\ subscribed
    /\ ~stopQRs
    /\ closed = 0
    /\ outLog = <<>>


\* The values written to the stream, in the order of the writes.
StreamItems == [i \in 1..Len(outLog) |-> outLog[i].item]

\* The codes of QR event h on the stream, in stream order.
IsCodeOf(h, item) == IsQR(item) /\ item.ev = h
CodesOnStream(h) == SelectSeq(StreamItems, LAMBDA item : IsCodeOf(h, item))

\* Two emitters are at work on the stream at once.
BothEmitting ==
    \E e1, e2 \in EmitterIds :
        /\ e1 # e2
        /\ emitters[e1].pc \in {"top", "wait"}
        /\ emitters[e2].pc \in {"top", "wait"}

\* C19: with two QR events handled, the codes on the stream are an
\* interleaving of the two sequences: the codes of each event on the stream are
\* an initial part of that event's sequence, in its order, each code once, none
\* skipped, and each code is written by the emitter of its event; the consumer
\* reads the values in the order of the writes.
C19_InterleavingKeepsEachOrder ==
    /\ \A h \in QRHandlers :
          \E k \in 0..Len(handlers[h].codes) :
             CodesOnStream(h) = SubSeq(handlers[h].codes, 1, k)
    /\ \A i \in 1..Len(outLog) :
          IsQR(outLog[i].item) =>
             /\ outLog[i].by.role = "emitter"
             /\ emitters[outLog[i].by.id].ev = outLog[i].item.ev
    /\ \A e \in EmitterIds : emitters[e].pc # "none" =>
          LET orig == handlers[emitters[e].ev].codes
              sent == Len(CodesOnStream(emitters[e].ev))
              popped == Len(orig) - Len(emitters[e].codes) IN
          /\ emitters[e].codes = SubSeq(orig, popped + 1, Len(orig))
          /\ sent \in {popped, popped - 1}
    /\ received \o outBuf = StreamItems

\* C19 witness: the second QR event was handled before the first sequence was
\* exhausted, both emitters have written all their codes and the stream
\* alternates between the two sequences.
C19_Witness ==
    /\ Len(outLog) = 4
    /\ outLog[1].item.ev # outLog[2].item.ev
    /\ outLog[2].item.ev # outLog[3].item.ev
    /\ outLog[3].item.ev # outLog[4].item.ev
    /\ \A i \in 1..4 : IsQR(outLog[i].item)
    /\ BothEmitting


\* The terminal transition was made by an emitter.
EmitterWon == \E e \in EmitterIds : emitters[e].won

\* The terminal-causing events whose handleEvent has run its first statement.
HandledTerminal == {h \in TerminalHandlers : handlers[h].pc # "called"}

\* C20: once an emitter has made the terminal transition, the relay is still
\* subscribed, and its stop signal unsignaled, as long as no terminal-causing
\* event has been handled; the handleEvent invocation of such an event then
\* signals stop, loses the compare-and-swap, writes nothing, closes nothing
\* and removes the handler; no step of the emitter removes it.
C20_EmitterWinLeavesHandlerToLaterEvent ==
    /\ [](EmitterWon =>
            /\ stopQRs <=> HandledTerminal # {}
            /\ subscribed <=> (\A h \in TerminalHandlers : handlers[h].pc # "returned")
            /\ removeCount = Cardinality({h \in TerminalHandlers : handlers[h].pc = "returned"})
            /\ \A h \in TerminalHandlers :
                  /\ ~handlers[h].won
                  /\ handlers[h].pc \in {"called", "cas", "remove", "returned"}
                  /\ WrittenBy(Handler(h)) = {}
                  /\ \A i \in 1..Len(closeLog) : closeLog[i] # Handler(h))
    /\ [][EmitterWon =>
            /\ (\E e \in EmitterIds : emitters'[e] # emitters[e])
                  => UNCHANGED <<subscribed, stopQRs, removeCount>>
            /\ \A h \in TerminalHandlers :
                  handlers'[h] # handlers[h] =>
                     CASE handlers[h].pc = "called" ->
                             stopQRs' /\ handlers'[h].pc = "cas" /\ closed' = closed
                       [] handlers[h].pc = "cas" ->
                             /\ handlers'[h].pc = "remove"
                             /\ ~handlers'[h].won
                             /\ UNCHANGED <<closed, outLog, outBuf, outClosed>>
                       [] handlers[h].pc = "remove" ->
                             /\ handlers'[h].pc = "returned"
                             /\ ~subscribed'
                             /\ removeCount' = removeCount + 1
                       [] OTHER -> FALSE]_vars

\* C20 witness: an exhausted emitter has closed the stream with timeout,
\* requested the disconnect and returned; the relay is still subscribed, stop
\* is unsignaled, and a terminal-causing event has been delivered to the
\* handler, whose invocation has yet to run.
C20_Witness ==
    /\ \E e \in EmitterIds :
          /\ emitters[e].pc = "exit_timeout"
          /\ outLog = <<[item |-> QRChannelTimeout, by |-> Emitter(e)]>>
          /\ closeLog = <<Emitter(e)>>
    /\ \E h \in TerminalHandlers : handlers[h].pc = "called"
    /\ subscribed
    /\ ~stopQRs
    /\ removeCount = 0
    /\ disconnectCount = 1
====
